---- MODULE Spec2Model ----
(***************************************************************************)
(* State-machine model of the notion-analyzer gateway:                     *)
(*   api/analyze.ts (handler), api/_lib/auth.ts, api/_lib/validate.ts,     *)
(*   api/_lib/notion.ts (write guard, fetchers, recursive block fetcher),  *)
(*   api/_lib/normalize.ts (property normalisation, content assembly).     *)
(*                                                                         *)
(* Strings that the code inspects character by character (request paths,   *)
(* the serialized request body, assembled content) are sequences of        *)
(* tokens: a token is a run of characters that the code never splits       *)
(* ("v1", "pages", an opaque id chunk "x") or a single significant         *)
(* character ("/", "?", the double quote).                                 *)
(***************************************************************************)
EXTENDS Integers, Sequences, FiniteSets, TLC

VARIABLES
    pc,          \* position of the /analyze handler (or of the function under study)
    req,         \* what the handler has read of the HTTP request so far
    env,         \* process.env as far as the code has read it
    request,     \* validation.data: the validated AnalyzeRequest (its targets)
    tIdx,        \* index of the target the handler's for-loop is at (1-based)
    normalized,  \* normalizedTargets of the handler
    res,         \* the HTTP response written by the handler
    stack,       \* activation records of fetchPageBlocks.recurse, innermost first
    result,      \* fetchPageBlocks' result array
    inflight,    \* requests handed to fetch() and not yet answered
    nCalls,      \* number of requests handed to fetch() so far
    nFailed,     \* number of notionFetch calls that threw so far
    tree,        \* the upstream block tree (parent of each block), or NoTree
    fnIn,        \* argument of the pure function under study
    fnOut        \* its result

vars == <<pc, req, env, request, tIdx, normalized, res, stack, result,
          inflight, nCalls, nFailed, tree, fnIn, fnOut>>

(***************************************************************************)
(* Generic helpers                                                         *)
(***************************************************************************)
Min(a, b) == IF a <= b THEN a ELSE b

SeqsUpTo(S, n) == UNION { [1..k -> S] : k \in 0..n }

Last(s) == s[Len(s)]

Front(s) == SubSeq(s, 1, Len(s) - 1)

StartsWith(s, pre) ==
    /\ Len(pre) <= Len(s)
    /\ SubSeq(s, 1, Len(pre)) = pre

\* String.prototype.includes: needle occurs as a contiguous run of s
Includes(s, needle) ==
    \E i \in 1..(Len(s) - Len(needle) + 1) :
        SubSeq(s, i, i + Len(needle) - 1) = needle

RECURSIVE Concat(_)
Concat(ss) == IF ss = <<>> THEN <<>> ELSE Head(ss) \o Concat(Tail(ss))

\* Array.prototype.join
RECURSIVE Join(_, _)
Join(ss, sep) ==
    IF ss = <<>> THEN <<>>
    ELSE IF Len(ss) = 1 THEN ss[1]
    ELSE ss[1] \o sep \o Join(Tail(ss), sep)

RECURSIVE SelectNonEmpty(_)
SelectNonEmpty(ss) ==
    IF ss = <<>> THEN <<>>
    ELSE IF Len(Head(ss)) > 0 THEN <<Head(ss)>> \o SelectNonEmpty(Tail(ss))
    ELSE SelectNonEmpty(Tail(ss))

(***************************************************************************)
(* notion.ts: the write guard                                              *)
(***************************************************************************)
\* String.prototype.toUpperCase on the method names the model draws
ToUpperCase(m) ==
    CASE m \in {"get", "GET"}             -> "GET"
      [] m \in {"post", "Post", "POST"}    -> "POST"
      [] m \in {"patch", "Patch", "PATCH"} -> "PATCH"
      [] m \in {"delete", "DELETE"}        -> "DELETE"
      [] OTHER                             -> m

\* pattern kinds: "root"   is  /^<toks>\/?$/   (the path, optional trailing slash)
\*                "prefix" is  /^<toks>\//     (anything below the path)
WRITE_PATTERNS == <<
    [method |-> "POST",   kind |-> "root",   toks |-> <<"/", "v1", "/", "pages">>],
    [method |-> "PATCH",  kind |-> "prefix", toks |-> <<"/", "v1", "/", "pages">>],
    [method |-> "PATCH",  kind |-> "prefix", toks |-> <<"/", "v1", "/", "blocks">>],
    [method |-> "DELETE", kind |-> "prefix", toks |-> <<"/", "v1", "/", "blocks">>],
    [method |-> "POST",   kind |-> "root",   toks |-> <<"/", "v1", "/", "comments">>] >>

\* RegExp.prototype.test of one write pattern on a path
PatternTest(wp, path) ==
    IF wp.kind = "root"
    THEN path = wp.toks \/ path = wp.toks \o <<"/">>
    ELSE StartsWith(path, wp.toks \o <<"/">>)

IsWriteCallNoVerbRule(method, path) ==
    LET upper == ToUpperCase(method)
    IN  \E i \in 1..Len(WRITE_PATTERNS) :
            /\ upper = WRITE_PATTERNS[i].method
            /\ PatternTest(WRITE_PATTERNS[i], path)

isWriteCall(method, path) ==
    LET upper == ToUpperCase(method)
    IN  \/ upper = "PATCH"
        \/ upper = "DELETE"
        \/ \E i \in 1..Len(WRITE_PATTERNS) :
               /\ upper = WRITE_PATTERNS[i].method
               /\ PatternTest(WRITE_PATTERNS[i], path)

(***************************************************************************)
(* notion.ts: new URL(path, NOTION_BASE).  The pathname is the part of the *)
(* path before the first "?", split at "/", with "." and ".." segments     *)
(* resolved as the URL parser resolves them.                               *)
(***************************************************************************)
RECURSIVE BeforeQuery(_)
BeforeQuery(path) ==
    IF path = <<>> \/ Head(path) = "?" THEN <<>>
    ELSE <<Head(path)>> \o BeforeQuery(Tail(path))

\* the segments of a path that starts with "/": one per "/", the last maybe empty
RECURSIVE SplitSlash(_, _)
SplitSlash(toks, cur) ==
    IF toks = <<>> THEN <<cur>>
    ELSE IF Head(toks) = "/" THEN <<cur>> \o SplitSlash(Tail(toks), <<>>)
    ELSE SplitSlash(Tail(toks), Append(cur, Head(toks)))

\* the URL parser's path state: ".." drops the last segment kept so far, "."
\* is skipped, and either of them as the final segment leaves a trailing slash
RECURSIVE ResolveDots(_, _)
ResolveDots(segs, acc) ==
    IF segs = <<>> THEN acc
    ELSE LET s == Head(segs)
             final == Len(segs) = 1
         IN  IF s = <<"..">>
             THEN ResolveDots(Tail(segs),
                     LET popped == IF acc = <<>> THEN acc ELSE Front(acc)
                     IN  IF final THEN Append(popped, <<>>) ELSE popped)
             ELSE IF s = <<".">>
             THEN ResolveDots(Tail(segs), IF final THEN Append(acc, <<>>) ELSE acc)
             ELSE ResolveDots(Tail(segs), Append(acc, s))

RECURSIVE Pathname(_)
Pathname(segs) ==
    IF segs = <<>> THEN <<>> ELSE <<"/">> \o Head(segs) \o Pathname(Tail(segs))

\* url.pathname of new URL(path, NOTION_BASE) for a path that starts with "/"
UrlPathname(path) ==
    Pathname(ResolveDots(Tail(SplitSlash(BeforeQuery(path), <<>>)), <<>>))

(***************************************************************************)
(* Bounds of the model                                                     *)
(***************************************************************************)
\* an id of a target is made of at most MaxIdSegs segments separated by "/"
MaxIdSegs == 2

\* number of blocks of the upstream trees the fetcher is studied on
MaxTreeNodes == 4

\* MAX_DEPTH values drawn: 0..MaxDepthBound
MaxDepthBound == 2

\* MAX_BLOCKS values drawn: 1..MaxBlocksBound
MaxBlocksBound == 5

\* MAX_DEPTH and MAX_BLOCKS values drawn for a whole /analyze request, whose
\* upstream answers every listing freely: 0..RequestDepthBound, 1..RequestBlocksBound
RequestDepthBound == 1

RequestBlocksBound == 2

\* entries of one page of a child listing.  The code asks for page_size 100
\* (retrieveBlockChildren's default) and never follows next_cursor; the model
\* keeps the mechanism and scales the size.
PageSize == 2

\* rows an upstream database query answers with: 0..MaxRows
MaxRows == 2

\* DB_PAGE_LIMIT as configured (the code's default is 50), scaled
DbPageLimit == 2

\* segments after /v1 of the paths the write guard is studied on: 1..MaxPathSegs
MaxPathSegs == 3

\* blocks of the pages whose content is assembled: 0..MaxContentBlocks
MaxContentBlocks == 3

\* MAX_CONTENT_CHARS (20000 in the code), scaled to the contents the model draws
MAX_CONTENT_CHARS == 4

\* properties of the records extractSimpleProperties is studied on: 0..MaxProps
MaxProps == 2

(***************************************************************************)
(* validate.ts: targets and the request body                               *)
(***************************************************************************)
IdSegAlphabet == {"x", "..", "pages"}

\* the characters of an id: its segments joined by "/", then "?" if cut
IdToks(segs, cut) ==
    Join([i \in 1..Len(segs) |-> <<segs[i]>>], <<"/">>)
        \o (IF cut THEN <<"?">> ELSE <<>>)

\* non-empty ids
IdSet ==
    { IdToks(segs, cut) :
        segs \in (SeqsUpTo(IdSegAlphabet, MaxIdSegs) \ {<<>>}), cut \in BOOLEAN }

PlainId == <<"x">>

\* target.query of a database target: absent, or an object with an optional
\* page_size (0: no such key) and an optional further key ("": none)
NoQuery == [present |-> FALSE, page_size |-> 0, key |-> ""]

QuerySet ==
    {NoQuery}
      \cup { [present |-> TRUE, page_size |-> n, key |-> ""] :
                n \in {0, 1, DbPageLimit + 1} }
      \cup { [present |-> TRUE, page_size |-> 0, key |-> k] :
                k \in {"filter", "delete", "Update"} }

Target(type, id, query) == [type |-> type, id |-> id, query |-> query]

ValidTargets ==
    { Target("page", id, NoQuery) : id \in IdSet }
      \cup { Target("database", id, q) : id \in IdSet, q \in QuerySet }

PlainTargets == { Target(ty, PlainId, NoQuery) : ty \in {"page", "database"} }

\* elements of b.targets that validateRequest refuses
BadTargets ==
    { Target("block", PlainId, NoQuery), Target("page", <<>>, NoQuery) }

\* b.targets as drawn: every single target, and the lists of two plain ones,
\* possibly with a refused element
TargetLists ==
    { <<t>> : t \in ValidTargets \cup BadTargets }
      \cup { <<t1, t2>> : t1 \in PlainTargets, t2 \in PlainTargets \cup BadTargets }
      \cup { <<>> }

QUOTE == "\""

\* instructions: absent (<<>> stands for undefined), or a text of words,
\* spaces and double quotes
InstructionSet ==
    { <<>>,
      <<"list", " ", "tasks">>,
      <<"list", " ", "tasks", " ", "to", " ", "delete", " ", "after", " ", "review">>,
      <<"list", " ", QUOTE, "delete", QUOTE, " ", "tasks">>,
      <<"tasks", " ", "tagged", " ", QUOTE, "delete">>,
      <<"delete">>,
      <<"DELETE">> }

\* focus: absent (<<>>), or an array of strings
FocusSet == { <<>>, <<"tasks">>, <<"tasks", "risks">>, <<"tasks", "Remove">> }

\* a further top-level key of the body ("": none)
ExtraKeySet == { "", "note", "insert", "Commit" }

DefaultTargets == << Target("page", PlainId, NoQuery) >>

Body(targets, isArray, mode, instructions, focus, extra) ==
    [isObject |-> TRUE, targets |-> targets, targetsIsArray |-> isArray,
     mode |-> mode, instructions |-> instructions, focus |-> focus,
     extraKey |-> extra]

\* req.body as drawn: one field varied at a time around a plain request
BodySet ==
    { [Body(<<>>, FALSE, "", <<>>, <<>>, "") EXCEPT !.isObject = FALSE] }
      \cup { Body(ts, TRUE, "", <<>>, <<>>, "") : ts \in TargetLists }
      \cup { Body(<<>>, FALSE, "", <<>>, <<>>, "") }
      \cup { Body(DefaultTargets, TRUE, m, <<>>, <<>>, "") :
                m \in {"project", "generic", "write", "fast"} }
      \cup { Body(DefaultTargets, TRUE, "", i, f, k) :
                i \in InstructionSet, f \in FocusSet, k \in ExtraKeySet }

WRITE_KEYWORDS ==
    <<"commit", "create", "update", "delete", "append", "write", "remove", "insert">>

\* String.prototype.toLowerCase on the tokens the model draws
ToLowerCase(tok) ==
    CASE tok = "DELETE" -> "delete"
      [] tok = "Update" -> "update"
      [] tok = "Remove" -> "remove"
      [] tok = "Commit" -> "commit"
      [] OTHER -> tok

LowerAll(toks) == [i \in 1..Len(toks) |-> ToLowerCase(toks[i])]

\* JSON.stringify's escapes inside a string: \" for the double quote, \\ for
\* the backslash
JsonEscape(toks) ==
    Concat([i \in 1..Len(toks) |->
               IF toks[i] = QUOTE THEN <<"\\", QUOTE>>
               ELSE IF toks[i] = "\\" THEN <<"\\", "\\">>
               ELSE <<toks[i]>>])

\* JSON.stringify of a string (a key or a value) whose characters are toks
Quoted(toks) == <<QUOTE>> \o JsonEscape(toks) \o <<QUOTE>>

StringifyQuery(q) ==
    <<"{">>
      \o (IF q.page_size # 0 THEN Quoted(<<"page_size">>) \o <<":", "num">> ELSE <<>>)
      \o (IF q.key # "" THEN Quoted(<<q.key>>) \o <<":", "{", "}">> ELSE <<>>)
      \o <<"}">>

StringifyTarget(t) ==
    <<"{">> \o Quoted(<<"type">>) \o <<":">> \o Quoted(<<t.type>>)
      \o <<",">> \o Quoted(<<"id">>) \o <<":">> \o Quoted(t.id)
      \o (IF t.query.present
          THEN <<",">> \o Quoted(<<"query">>) \o <<":">> \o StringifyQuery(t.query)
          ELSE <<>>)
      \o <<"}">>

\* JSON.stringify(b) for an object body
Stringify(b) ==
    <<"{">>
      \o Quoted(<<"targets">>) \o <<":">>
      \o (IF b.targetsIsArray
          THEN <<"[">>
                 \o Join([i \in 1..Len(b.targets) |-> StringifyTarget(b.targets[i])],
                         <<",">>)
                 \o <<"]">>
          ELSE <<"num">>)
      \o (IF b.mode # "" THEN <<",">> \o Quoted(<<"mode">>) \o <<":">> \o Quoted(<<b.mode>>)
          ELSE <<>>)
      \o (IF b.instructions # <<>>
          THEN <<",">> \o Quoted(<<"instructions">>) \o <<":">> \o Quoted(b.instructions)
          ELSE <<>>)
      \o (IF b.focus # <<>>
          THEN <<",">> \o Quoted(<<"focus">>) \o <<":", "[">>
                 \o Join([i \in 1..Len(b.focus) |-> Quoted(<<b.focus[i]>>)], <<",">>)
                 \o <<"]">>
          ELSE <<>>)
      \o (IF b.extraKey # ""
          THEN <<",">> \o Quoted(<<b.extraKey>>) \o <<":", "num">>
          ELSE <<>>)
      \o <<"}">>

\* a scan for the bare keyword, without the quotes around it
KeywordScanUnquoted(b) ==
    LET bodyStr == LowerAll(Stringify(b))
        hits == { i \in 1..Len(WRITE_KEYWORDS) :
                    Includes(bodyStr, <<WRITE_KEYWORDS[i]>>) }
    IN  IF hits = {} THEN ""
        ELSE WRITE_KEYWORDS[CHOOSE i \in hits : \A j \in hits : i <= j]

\* the write-keyword scan of validateRequest: the first keyword found, or ""
KeywordScanCaseSensitive(b) ==
    LET bodyStr == Stringify(b)
        hits == { i \in 1..Len(WRITE_KEYWORDS) :
                    Includes(bodyStr, Quoted(<<WRITE_KEYWORDS[i]>>)) }
    IN  IF hits = {} THEN ""
        ELSE WRITE_KEYWORDS[CHOOSE i \in hits : \A j \in hits : i <= j]

KeywordScan(b) ==
    LET bodyStr == LowerAll(Stringify(b))
        hits == { i \in 1..Len(WRITE_KEYWORDS) :
                    Includes(bodyStr, Quoted(<<WRITE_KEYWORDS[i]>>)) }
    IN  IF hits = {} THEN ""
        ELSE WRITE_KEYWORDS[CHOOSE i \in hits : \A j \in hits : i <= j]

TargetRefused(t) ==
    \/ t.type \notin {"page", "database"}
    \/ t.id = <<>>

\* validateRequest(body): [ok, message, data]
validateRequest(body) ==
    LET fail(msg) == [ok |-> FALSE, message |-> msg, data |-> <<>>]
    IN  IF ~body.isObject THEN fail("body must be a JSON object")
        ELSE IF KeywordScan(body) # "" THEN fail("forbidden keyword")
        ELSE IF ~body.targetsIsArray \/ Len(body.targets) = 0
             THEN fail("targets must be a non-empty array")
        ELSE IF \E i \in 1..Len(body.targets) : TargetRefused(body.targets[i])
             THEN fail("bad target")
        ELSE IF body.mode \notin {"", "project", "generic"}
             THEN fail("bad mode")
        ELSE [ok |-> TRUE, message |-> "", data |-> body.targets]

(***************************************************************************)
(* auth.ts                                                                 *)
(***************************************************************************)
\* the Authorization header: absent (scheme ""), or "<scheme> <token>"
AuthHeaderSet ==
    { [scheme |-> "", token |-> ""] }
      \cup { [scheme |-> s, token |-> t] :
                s \in {"Bearer", "bearer", "Basic"}, t \in {"secret", "guess"} }

\* GATEWAY_API_KEY: unset (""), or set
GatewayKeySet == { "", "secret" }

\* an authenticate that takes any bearer token
AuthenticateAnyToken(key, header) ==
    IF key = "" THEN [ok |-> FALSE, status |-> 500]
    ELSE IF header.scheme \notin {"Bearer", "bearer"} THEN [ok |-> FALSE, status |-> 401]
    ELSE [ok |-> TRUE, status |-> 200]

\* authenticate(req): [ok, status]
authenticate(key, header) ==
    IF key = "" THEN [ok |-> FALSE, status |-> 500]
    ELSE IF header.scheme = "" THEN [ok |-> FALSE, status |-> 401]
    ELSE IF header.scheme \notin {"Bearer", "bearer"} THEN [ok |-> FALSE, status |-> 401]
    ELSE IF header.token # key THEN [ok |-> FALSE, status |-> 401]
    ELSE [ok |-> TRUE, status |-> 200]

(***************************************************************************)
(* The upstream store                                                      *)
(***************************************************************************)
\* An upstream block tree: tree[i] is the parent of block i, 0 is the page.
\* A block's children are listed in increasing order of their number.
TreeSet ==
    UNION { { t \in [1..n -> 0..(n - 1)] : \A i \in 1..n : t[i] < i } :
            n \in 0..MaxTreeNodes }

\* no tree fixed in advance: the upstream answers each listing as it likes
NoTree == <<-1>>

RootNode == 0

UnknownNode == -1

RECURSIVE SortedSeq(_)
SortedSeq(S) ==
    IF S = {} THEN <<>>
    ELSE LET m == CHOOSE x \in S : \A y \in S : x <= y
         IN  <<m>> \o SortedSeq(S \ {m})

ChildrenOf(t, p) == SortedSeq({ i \in 1..Len(t) : t[i] = p })

\* a block of a listing's results: the characters of its id, the upstream's
\* block it is, and its has_children flag
Block(node, hc) == [id |-> <<"b">>, node |-> node, has_children |-> hc]

\* the first page of the children of block p in tree t
FirstPage(t, p) ==
    LET all == ChildrenOf(t, p)
        first == SubSeq(all, 1, Min(Len(all), PageSize))
    IN  [i \in 1..Len(first) |-> Block(first[i], ChildrenOf(t, first[i]) # <<>>)]

\* the results the upstream may answer a listing of block p with
Listings(t, p) ==
    IF t = NoTree
    THEN SeqsUpTo({ Block(UnknownNode, hc) : hc \in BOOLEAN }, PageSize)
    ELSE { FirstPage(t, p) }

(***************************************************************************)
(* notion.ts: notionFetch and the three read operations                    *)
(***************************************************************************)
\* a request as handed to fetch(): pageSize is the page_size the request
\* carries (in the query string or in the body), 0 if none
Call(method, path, pageSize) ==
    [method |-> ToUpperCase(method), path |-> path, pageSize |-> pageSize]

retrievePageCall(pageId) ==
    Call("GET", <<"/", "v1", "/", "pages", "/">> \o pageId, 0)

retrieveBlockChildrenCall(blockId) ==
    Call("GET", <<"/", "v1", "/", "blocks", "/">> \o blockId \o <<"/", "children">>,
         PageSize)

\* page_size of { page_size: dbPageLimit, ...query }
QueryBody(dbPageLimit, query) ==
    IF query.present /\ query.page_size # 0 THEN query.page_size ELSE dbPageLimit

queryDatabaseCall(databaseId, query) ==
    Call("POST", <<"/", "v1", "/", "databases", "/">> \o databaseId \o <<"/", "query">>,
         QueryBody(env.dbPageLimit, query))

\* notionFetch up to fetch(): what happens to the call
notionFetchGuard(call) ==
    IF isWriteCall(call.method, call.path) THEN "blocked"
    ELSE IF ~env.token THEN "no_token"
    ELSE "send"

FireAndForget(waitPc) == "loop"

\* "await": the caller is suspended until the answer to the call is there
Await(waitPc) == waitPc

NoResponse == [status |-> 0, ok |-> FALSE, error |-> "", targets |-> <<>>, n |-> 0]

Respond(status, ok, error, targets) ==
    [status |-> status, ok |-> ok, error |-> error, targets |-> targets,
     n |-> res.n + 1]

\* no handler around: fetchPageBlocks is studied on its own
NoRequest == <<>>

ThrowKeepsPartial(error) ==
    /\ nFailed' = nFailed + 1
    /\ stack' = <<>>
    /\ result' = <<>>
    /\ IF request = NoRequest
       THEN /\ pc' = "thrown"
            /\ res' = [res EXCEPT !.error = error]
       ELSE /\ pc' = "done"
            /\ res' = Respond(200, TRUE, error, normalized)

\* a catch around each target that runs the target's fetch again
ThrowRetries(error) ==
    /\ nFailed' = nFailed + 1
    /\ stack' = <<>>
    /\ result' = <<>>
    /\ res' = [res EXCEPT !.error = error]
    /\ pc' = IF request = NoRequest THEN "thrown" ELSE "loop"

\* an exception leaves notionFetch: the frames of the traversal are unwound,
\* and the handler's catch answers 500 (on its own, the function under study
\* has thrown the error)
Throw(error) ==
    /\ nFailed' = nFailed + 1
    /\ stack' = <<>>
    /\ result' = <<>>
    /\ IF request = NoRequest
       THEN /\ pc' = "thrown"
            /\ res' = [res EXCEPT !.error = error]
       ELSE /\ pc' = "done"
            /\ res' = Respond(500, FALSE, error, <<>>)

\* notionFetch(call) up to the await of fetch()
Issue(call, waitPc) ==
    IF notionFetchGuard(call) = "send"
    THEN /\ inflight' = Append(inflight, call)
         /\ nCalls' = nCalls + 1
         /\ pc' = Await(waitPc)
         /\ UNCHANGED <<res, nFailed, stack, result>>
    ELSE /\ Throw(notionFetchGuard(call))
         /\ UNCHANGED <<inflight, nCalls>>

(***************************************************************************)
(* analyze.ts: the handler                                                 *)
(***************************************************************************)
HttpMethodSet == {"OPTIONS", "GET", "POST"}

UnreadRequest ==
    [method |-> "", auth |-> [scheme |-> "", token |-> ""],
     body |-> Body(<<>>, FALSE, "", <<>>, <<>>, ""), read |-> 0]

Finish(response) ==
    /\ pc' = "done"
    /\ res' = response

\* CORS preflight and method check
HandlerMethod ==
    /\ pc = "start"
    /\ \E m \in HttpMethodSet :
        /\ req' = [req EXCEPT !.method = m, !.read = 1]
        /\ IF m = "OPTIONS" THEN Finish(Respond(200, TRUE, "", <<>>))
           ELSE IF m # "POST" THEN Finish(Respond(405, FALSE, "method", <<>>))
           ELSE pc' = "auth" /\ res' = res
    /\ UNCHANGED <<env, request, tIdx, normalized, stack, result, inflight,
                   nCalls, nFailed, tree, fnIn, fnOut>>

HandlerAuth ==
    /\ pc = "auth"
    /\ \E h \in AuthHeaderSet :
        LET auth == authenticate(env.key, h)
        IN  /\ req' = [req EXCEPT !.auth = h, !.read = 2]
            /\ IF ~auth.ok THEN Finish(Respond(auth.status, FALSE, "auth", <<>>))
               ELSE pc' = "validate" /\ res' = res
    /\ UNCHANGED <<env, request, tIdx, normalized, stack, result, inflight,
                   nCalls, nFailed, tree, fnIn, fnOut>>

HandlerValidate ==
    /\ pc = "validate"
    /\ \E b \in BodySet :
        LET validation == validateRequest(b)
        IN  /\ req' = [req EXCEPT !.body = b, !.read = 3]
            /\ IF ~validation.ok
               THEN /\ Finish(Respond(400, FALSE, validation.message, <<>>))
                    /\ UNCHANGED <<request, tIdx>>
               ELSE /\ request' = validation.data
                    /\ tIdx' = 1
                    /\ pc' = "loop"
                    /\ res' = res
    /\ UNCHANGED <<env, normalized, stack, result, inflight, nCalls, nFailed,
                   tree, fnIn, fnOut>>

\* the for-loop over request.targets: the next target's first call, or the
\* 200 response after the last target
HandlerLoop ==
    /\ pc = "loop"
    /\ IF tIdx > Len(request)
       THEN /\ Finish(Respond(200, TRUE, "", normalized))
            /\ UNCHANGED <<stack, result, inflight, nCalls, nFailed>>
       ELSE LET target == request[tIdx]
            IN  IF target.type = "page"
                THEN Issue(retrievePageCall(target.id), "page_wait")
                ELSE Issue(queryDatabaseCall(target.id, target.query), "query_wait")
    /\ UNCHANGED <<req, env, request, tIdx, normalized, tree, fnIn, fnOut>>

\* a recurse() activation that has not listed its block yet
Frame(id, node, depth) ==
    [id |-> id, node |-> node, depth |-> depth, kids |-> <<>>, i |-> 0]

\* retrievePage is answered; on success normalizePageTarget goes on to
\* fetchPageBlocks(pageId), which starts recurse(pageId, 0)
PageResponse ==
    /\ pc = "page_wait"
    /\ inflight # <<>>
    /\ inflight' = Tail(inflight)
    /\ \E ok \in BOOLEAN :
        IF ok
        THEN /\ result' = <<>>
             /\ stack' = << Frame(request[tIdx].id, RootNode, 0) >>
             /\ pc' = "recurse"
             /\ UNCHANGED <<res, nFailed>>
        ELSE Throw("upstream")
    /\ UNCHANGED <<req, env, request, tIdx, normalized, nCalls, tree, fnIn, fnOut>>

\* recurse returns: to the activation below it, or out of fetchPageBlocks
Return ==
    /\ stack' = Tail(stack)
    /\ pc' = IF Tail(stack) # <<>> THEN "recurse_loop"
             ELSE IF request = NoRequest THEN "returned"
             ELSE "fetched"

\* entry of recurse(parentId, depth)
Recurse ==
    /\ pc = "recurse"
    /\ LET f == Head(stack)
       IN  IF f.depth > env.maxDepth \/ Len(result) >= env.maxBlocks
           THEN /\ Return
                /\ UNCHANGED <<res, result, inflight, nCalls, nFailed>>
           ELSE Issue(retrieveBlockChildrenCall(f.id), "children_wait")
    /\ UNCHANGED <<req, env, request, tIdx, normalized, tree, fnIn, fnOut>>

\* retrieveBlockChildren is answered
ChildrenResponse ==
    /\ pc = "children_wait"
    /\ inflight # <<>>
    /\ inflight' = Tail(inflight)
    /\ \/ \E kids \in Listings(tree, Head(stack).node) :
            /\ stack' = << [Head(stack) EXCEPT !.kids = kids, !.i = 1] >> \o Tail(stack)
            /\ pc' = "recurse_loop"
            /\ UNCHANGED <<res, result, nFailed>>
       \/ Throw("upstream")
    /\ UNCHANGED <<req, env, request, tIdx, normalized, nCalls, tree, fnIn, fnOut>>

DescendOffByOne(b, depth) == b.has_children /\ depth + 1 < env.maxDepth

\* line 145: whether recurse goes into block b, emitted at depth
Descend(b, depth) == b.has_children /\ depth < env.maxDepth

BudgetNever(n) == FALSE

\* a budget counted per level of the recursion: the blocks this activation emitted
BudgetPerLevel(n) == Head(stack).i - 1 >= env.maxBlocks

\* lines 131, 135: the budget of blocks is used up
BudgetReached(n) == n >= env.maxBlocks

\* one turn of the for-loop of recurse over resp.results
RecurseLoop ==
    /\ pc = "recurse_loop"
    /\ LET f == Head(stack)
       IN  IF f.i > Len(f.kids) \/ BudgetReached(Len(result))
           THEN /\ Return
                /\ result' = result
           ELSE LET b == f.kids[f.i]
                    next == [f EXCEPT !.i = f.i + 1]
                IN  /\ result' = Append(result, [node |-> b.node, depth |-> f.depth])
                    /\ IF Descend(b, f.depth)
                       THEN /\ stack' = << Frame(b.id, b.node, f.depth + 1), next >>
                                            \o Tail(stack)
                            /\ pc' = "recurse"
                       ELSE /\ stack' = << next >> \o Tail(stack)
                            /\ pc' = "recurse_loop"
    /\ UNCHANGED <<req, env, request, tIdx, normalized, res, inflight, nCalls,
                   nFailed, tree, fnIn, fnOut>>

\* a NormalizedTarget, as far as the handler's control flow shows it
Normalized(type, id, blocks, items) ==
    [type |-> type, id |-> id, blocks_count |-> blocks, items |-> items]

\* the rest of normalizePageTarget and normalizedTargets.push(result)
PageDone ==
    /\ pc = "fetched"
    /\ normalized' = Append(normalized,
                        Normalized("page", request[tIdx].id, Len(result), 0))
    /\ result' = <<>>
    /\ tIdx' = tIdx + 1
    /\ pc' = "loop"
    /\ UNCHANGED <<req, env, request, res, stack, inflight, nCalls, nFailed,
                   tree, fnIn, fnOut>>

\* queryDatabase is answered; on success the rest of normalizeDatabaseTarget
\* and normalizedTargets.push(result)
QueryResponse ==
    /\ pc = "query_wait"
    /\ inflight # <<>>
    /\ inflight' = Tail(inflight)
    /\ \/ \E rows \in 0..MaxRows :
            /\ normalized' = Append(normalized,
                                Normalized("database", request[tIdx].id, 0, rows))
            /\ tIdx' = tIdx + 1
            /\ pc' = "loop"
            /\ UNCHANGED <<res, nFailed, stack, result>>
       \/ /\ Throw("upstream")
          /\ UNCHANGED <<normalized, tIdx>>
    /\ UNCHANGED <<req, env, request, nCalls, tree, fnIn, fnOut>>

Env(key, token, maxDepth, maxBlocks) ==
    [key |-> key, token |-> token, maxDepth |-> maxDepth, maxBlocks |-> maxBlocks,
     dbPageLimit |-> DbPageLimit]

\* a request arrives at /analyze; process.env is whatever the deployment set
Init ==
    /\ pc = "start"
    /\ req = UnreadRequest
    /\ env \in { Env(k, t, d, n) : k \in GatewayKeySet, t \in BOOLEAN,
                                   d \in 0..RequestDepthBound,
                                   n \in 1..RequestBlocksBound }
    /\ request = NoRequest
    /\ tIdx = 0
    /\ normalized = <<>>
    /\ res = NoResponse
    /\ stack = <<>>
    /\ result = <<>>
    /\ inflight = <<>>
    /\ nCalls = 0
    /\ nFailed = 0
    /\ tree = NoTree
    /\ fnIn = <<>>
    /\ fnOut = <<>>

Next ==
    \/ HandlerMethod
    \/ HandlerAuth
    \/ HandlerValidate
    \/ HandlerLoop
    \/ PageResponse
    \/ Recurse
    \/ ChildrenResponse
    \/ RecurseLoop
    \/ PageDone
    \/ QueryResponse

Spec == Init /\ [][Next]_vars

(***************************************************************************)
(* fetchPageBlocks on its own, over every upstream tree of the bounds      *)
(***************************************************************************)
InitFetch ==
    /\ pc = "recurse"
    /\ req = UnreadRequest
    /\ env \in { Env("secret", t, d, n) : t \in BOOLEAN,
                                          d \in 0..MaxDepthBound, n \in 1..MaxBlocksBound }
    /\ request = NoRequest
    /\ tIdx = 0
    /\ normalized = <<>>
    /\ res = NoResponse
    /\ stack = << Frame(PlainId, RootNode, 0) >>
    /\ result = <<>>
    /\ inflight = <<>>
    /\ nCalls = 0
    /\ nFailed = 0
    /\ tree \in TreeSet
    /\ fnIn = <<>>
    /\ fnOut = <<>>

NextFetch ==
    \/ Recurse
    \/ ChildrenResponse
    \/ RecurseLoop

SpecFetch == InitFetch /\ [][NextFetch]_vars

(***************************************************************************)
(* notionFetch on its own, over methods and paths                          *)
(***************************************************************************)
GatewayMethodSet ==
    {"GET", "get", "POST", "post", "Post", "PATCH", "patch", "Patch",
     "DELETE", "delete", "PUT"}

PathSegAlphabet ==
    {"pages", "blocks", "databases", "comments", "query", "children", "x"}

\* /v1/<seg>/.../<seg>, with or without a trailing slash
GatewayPathSet ==
    { <<"/", "v1">> \o Pathname([i \in 1..Len(segs) |-> <<segs[i]>>]) \o trail :
        segs \in (SeqsUpTo(PathSegAlphabet, MaxPathSegs) \ {<<>>}),
        trail \in {<<>>, <<"/">>} }

\* notionFetch(path, { method }) up to the await of fetch()
GatewayCall ==
    /\ pc = "gateway"
    /\ Issue(Call(fnIn.method, fnIn.path, 0), "gateway_wait")
    /\ UNCHANGED <<req, env, request, tIdx, normalized, tree, fnIn, fnOut>>

\* fetch() is answered: res.ok or not
GatewayResponse ==
    /\ pc = "gateway_wait"
    /\ inflight # <<>>
    /\ inflight' = Tail(inflight)
    /\ \/ /\ pc' = "returned"
          /\ UNCHANGED <<res, nFailed, stack, result>>
       \/ Throw("upstream")
    /\ UNCHANGED <<req, env, request, tIdx, normalized, nCalls, tree, fnIn, fnOut>>

InitGateway ==
    /\ pc = "gateway"
    /\ req = UnreadRequest
    /\ env \in { Env("secret", t, 0, 1) : t \in BOOLEAN }
    /\ request = NoRequest
    /\ tIdx = 0
    /\ normalized = <<>>
    /\ res = NoResponse
    /\ stack = <<>>
    /\ result = <<>>
    /\ inflight = <<>>
    /\ nCalls = 0
    /\ nFailed = 0
    /\ tree = NoTree
    /\ fnIn \in { [method |-> m, path |-> p] : m \in GatewayMethodSet, p \in GatewayPathSet }
    /\ fnOut = <<>>

NextGateway ==
    \/ GatewayCall
    \/ GatewayResponse

SpecGateway == InitGateway /\ [][NextGateway]_vars

(***************************************************************************)
(* text.ts, normalize.ts: content assembly.  Content is a sequence of      *)
(* characters.                                                             *)
(***************************************************************************)
TRUNCATION_MARKER ==
    <<"\n", ".", ".", ".", " ", "[", "t", "r", "u", "n", "c", "a", "t", "e", "d", "]">>

\* "  ".repeat(depth)
Indent(depth) == [i \in 1..(2 * depth) |-> " "]

\* blockToText for the block types the model draws; text is the block's
\* rich text in plain form
blockToText(b) ==
    CASE b.type = "paragraph" ->
            IF b.text # <<>> THEN Indent(b.depth) \o b.text ELSE <<>>
      [] b.type = "heading_1" -> Indent(b.depth) \o <<"#", " ">> \o b.text
      [] b.type = "divider"   -> Indent(b.depth) \o <<"-", "-", "-">>
      [] OTHER ->
            IF b.text # <<>> THEN Indent(b.depth) \o b.text
            ELSE Indent(b.depth) \o <<"[">> \o <<b.type>> \o <<"]">>

TruncateAtCap(contentText) ==
    IF Len(contentText) >= MAX_CONTENT_CHARS
    THEN SubSeq(contentText, 1, MAX_CONTENT_CHARS) \o TRUNCATION_MARKER
    ELSE contentText

\* lines 153-155 and 192-194
Truncate(contentText) ==
    IF Len(contentText) > MAX_CONTENT_CHARS
    THEN SubSeq(contentText, 1, MAX_CONTENT_CHARS) \o TRUNCATION_MARKER
    ELSE contentText

\* normalizePageTarget, lines 147-150
PageContent(blocks) ==
    Join(SelectNonEmpty([i \in 1..Len(blocks) |-> blockToText(blocks[i])]), <<"\n">>)

Digit(n) == <<"1", "2", "3", "4", "5", "6", "7", "8", "9">>[n]

\* normalizeDatabaseTarget, lines 183-190; an item's properties are pairs of a
\* key and the characters of JSON.stringify of its value
ItemText(item, i) ==
    <<Digit(i), ".", " ">> \o item.title \o <<"\n">>
      \o Join([j \in 1..Len(item.properties) |->
                  <<" ", " ">> \o item.properties[j].k \o <<":", " ">>
                    \o item.properties[j].v],
              <<"\n">>)

DatabaseContent(items) ==
    Join([i \in 1..Len(items) |-> ItemText(items[i], i)], <<"\n", "\n">>)

ContentBlockSet ==
    { [type |-> ty, text |-> tx, depth |-> d] :
        ty \in {"paragraph", "heading_1", "divider"},
        tx \in {<<>>, <<"a">>, <<"a", "b">>},
        d \in 0..1 }

ContentItemSet ==
    { [title |-> ti, properties |-> ps] :
        ti \in {<<>>, <<"T">>},
        ps \in SeqsUpTo({ [k |-> <<"k">>, v |-> v] : v \in {<<"1">>, <<"n", "u", "l", "l">>} }, 1) }

AssemblePage ==
    /\ pc = "assemble"
    /\ fnIn.type = "page"
    /\ fnOut' = Truncate(PageContent(fnIn.blocks))
    /\ pc' = "returned"
    /\ UNCHANGED <<req, env, request, tIdx, normalized, res, stack, result,
                   inflight, nCalls, nFailed, tree, fnIn>>

AssembleDatabase ==
    /\ pc = "assemble"
    /\ fnIn.type = "database"
    /\ fnOut' = Truncate(DatabaseContent(fnIn.items))
    /\ pc' = "returned"
    /\ UNCHANGED <<req, env, request, tIdx, normalized, res, stack, result,
                   inflight, nCalls, nFailed, tree, fnIn>>

InitAssemble ==
    /\ pc = "assemble"
    /\ req = UnreadRequest
    /\ env = Env("secret", TRUE, 1, 1)
    /\ request = NoRequest
    /\ tIdx = 0
    /\ normalized = <<>>
    /\ res = NoResponse
    /\ stack = <<>>
    /\ result = <<>>
    /\ inflight = <<>>
    /\ nCalls = 0
    /\ nFailed = 0
    /\ tree = NoTree
    /\ fnIn \in { [type |-> "page", blocks |-> bs, items |-> <<>>] :
                    bs \in SeqsUpTo(ContentBlockSet, MaxContentBlocks) }
               \cup { [type |-> "database", blocks |-> <<>>, items |-> is] :
                    is \in SeqsUpTo(ContentItemSet, MaxRows) }
    /\ fnOut = <<>>

NextAssemble ==
    \/ AssemblePage
    \/ AssembleDatabase

SpecAssemble == InitAssemble /\ [][NextAssemble]_vars

(***************************************************************************)
(* normalize.ts: extractSimpleProperties.  An object is the sequence of    *)
(* its own entries, in insertion order.                                    *)
(***************************************************************************)
KnownPropTypes ==
    {"title", "rich_text", "number", "select", "multi_select", "status", "date",
     "checkbox", "url", "email", "phone_number", "people", "relation", "formula",
     "rollup", "created_time", "last_edited_time", "created_by", "last_edited_by"}

PropTypeSet == KnownPropTypes \cup {"button", "unique_id"}

PropKeySet == {"Name", "Status", "__proto__"}

\* a property record: its discriminant, and whether the payload under it is
\* there or null
PropSet == { [type |-> ty, payload |-> pl] : ty \in PropTypeSet, pl \in {"value", "null"} }

Value(kind, toks) == [kind |-> kind, toks |-> toks]

\* the body of the switch: the value assigned for one property
PropertyValue(prop) ==
    LET there == prop.payload = "value"
    IN  CASE prop.type \in {"title", "rich_text"} ->
                Value("string", IF there THEN <<"v">> ELSE <<>>)
          [] prop.type \in {"number", "checkbox", "url", "email", "phone_number",
                            "created_time", "last_edited_time"} ->
                IF there THEN Value("scalar", <<"v">>) ELSE Value("null", <<>>)
          [] prop.type \in {"select", "status", "created_by", "last_edited_by"} ->
                IF there THEN Value("string", <<"v">>) ELSE Value("null", <<>>)
          [] prop.type \in {"multi_select", "people", "relation"} ->
                Value("array", IF there THEN <<"v">> ELSE <<>>)
          [] prop.type = "date" ->
                IF there THEN Value("object", <<"start", "end">>) ELSE Value("null", <<>>)
          [] prop.type \in {"formula", "rollup"} ->
                IF there THEN Value("scalar", <<"v">>) ELSE Value("null", <<>>)
          [] OTHER -> Value("string", <<"[", prop.type, "]">>)

\* result[key] = value on an object literal: "__proto__" is the accessor of
\* Object.prototype, so the assignment creates no own property
AssignKey(obj, key, value) ==
    IF key = "__proto__" THEN obj
    ELSE IF \E i \in 1..Len(obj) : obj[i].key = key
    THEN [i \in 1..Len(obj) |->
            IF obj[i].key = key THEN [key |-> key, value |-> value] ELSE obj[i]]
    ELSE Append(obj, [key |-> key, value |-> value])

RECURSIVE ExtractFrom(_, _)
ExtractFrom(entries, acc) ==
    IF entries = <<>> THEN acc
    ELSE ExtractFrom(Tail(entries),
                     AssignKey(acc, Head(entries).key, PropertyValue(Head(entries).prop)))

\* extractSimpleProperties(props), props given as Object.entries(props)
extractSimpleProperties(props) == ExtractFrom(props, <<>>)

ExtractProperties ==
    /\ pc = "extract"
    /\ fnOut' = extractSimpleProperties(fnIn)
    /\ pc' = "returned"
    /\ UNCHANGED <<req, env, request, tIdx, normalized, res, stack, result,
                   inflight, nCalls, nFailed, tree, fnIn>>

InitProps ==
    /\ pc = "extract"
    /\ req = UnreadRequest
    /\ env = Env("secret", TRUE, 1, 1)
    /\ request = NoRequest
    /\ tIdx = 0
    /\ normalized = <<>>
    /\ res = NoResponse
    /\ stack = <<>>
    /\ result = <<>>
    /\ inflight = <<>>
    /\ nCalls = 0
    /\ nFailed = 0
    /\ tree = NoTree
    /\ fnIn \in { es \in SeqsUpTo({ [key |-> k, prop |-> pr] : k \in PropKeySet, pr \in PropSet },
                                  MaxProps) :
                    \A i, j \in 1..Len(es) : i # j => es[i].key # es[j].key }
    /\ fnOut = <<>>

NextProps == ExtractProperties

SpecProps == InitProps /\ [][NextProps]_vars

(***************************************************************************)
(* Claims                                                                  *)
(***************************************************************************)

\* C1: no call of an /analyze request that reaches the network is a mutation
\* of the store: judged by the method and the URL actually requested, none is
\* a create, update, append or delete.
C1_NoMutatingCall ==
    \A i \in 1..Len(inflight) :
        ~isWriteCall(inflight[i].method, UrlPathname(inflight[i].path))

\* C2: in every state of fetchPageBlocks the emitted blocks are at most
\* maxBlocks and each has depth <= maxDepth.
C2_Bounded ==
    /\ Len(result) <= env.maxBlocks
    /\ \A i \in 1..Len(result) : result[i].depth <= env.maxDepth

\* C2 witness: the budget is used up with a block at the depth ceiling, below
\* the root's children, and the traversal still has listed blocks left.
C2_Witness ==
    /\ Len(result) = env.maxBlocks
    /\ env.maxDepth >= 1
    /\ \E i \in 1..Len(result) : result[i].depth = env.maxDepth
    /\ pc = "recurse_loop"
    /\ Head(stack).i <= Len(Head(stack).kids)

\* the descendants of block p at depths depth..maxDepth, in pre-order, each
\* with its depth; a block lists at most `page` children (0: all of them)
RECURSIVE PreOrder(_, _, _, _, _)
PreOrder(t, p, depth, maxDepth, page) ==
    IF depth > maxDepth THEN <<>>
    ELSE LET all == ChildrenOf(t, p)
             kids == IF page = 0 THEN all ELSE SubSeq(all, 1, Min(Len(all), page))
         IN  Concat([i \in 1..Len(kids) |->
                        << [node |-> kids[i], depth |-> depth] >>
                          \o PreOrder(t, kids[i], depth + 1, maxDepth, page)])

AllDescendants == PreOrder(tree, RootNode, 0, env.maxDepth, 0)

ListedDescendants == PreOrder(tree, RootNode, 0, env.maxDepth, PageSize)

\* C3 (as claimed): when the tree has fewer than maxBlocks descendants at
\* depths 0..maxDepth, fetchPageBlocks returns all of them once, in pre-order,
\* with their depths.
C3_AllDescendants ==
    (pc = "returned" /\ Len(AllDescendants) < env.maxBlocks)
        => result = AllDescendants

\* C3 (amended): the same for the descendants reachable through the first page
\* of each block's child listing.
C3_ListedDescendants ==
    (pc = "returned" /\ Len(ListedDescendants) < env.maxBlocks)
        => result = ListedDescendants

\* C3 witness: a returned walk of three levels whose pre-order is not the
\* upstream's numbering.
C3_Witness ==
    /\ pc = "returned"
    /\ Len(ListedDescendants) < env.maxBlocks
    /\ Len(result) >= 3
    /\ \E i \in 1..Len(result) : result[i].depth = 2
    /\ \E i, j \in 1..Len(result) : i < j /\ result[i].node > result[j].node

\* a key or a whole string value of the body is a write keyword, in any case
IsKeyword(tok) == \E i \in 1..Len(WRITE_KEYWORDS) : ToLowerCase(tok) = WRITE_KEYWORDS[i]

HasWriteKeyword(b) ==
    /\ b.isObject
    /\ \/ IsKeyword(b.extraKey)
       \/ IsKeyword(b.mode)
       \/ Len(b.instructions) = 1 /\ IsKeyword(b.instructions[1])
       \/ \E i \in 1..Len(b.focus) : IsKeyword(b.focus[i])
       \/ /\ b.targetsIsArray
          /\ \E i \in 1..Len(b.targets) :
                \/ IsKeyword(b.targets[i].type)
                \/ Len(b.targets[i].id) = 1 /\ IsKeyword(b.targets[i].id[1])
                \/ b.targets[i].query.present /\ IsKeyword(b.targets[i].query.key)

\* C5: a request whose body, as validateRequest gets it, holds a write keyword
\* as a key or as a whole string value, in any case and at any nesting, is
\* answered 400 and no call to the store is made.
C5_KeywordRejected ==
    (req.read = 3 /\ HasWriteKeyword(req.body))
        => (pc = "done" /\ res.status = 400 /\ nCalls = 0 /\ inflight = <<>>)

\* C5 witness: a rejected body whose keyword is a capitalised key nested in a
\* target's query.
C5_Witness ==
    /\ req.read = 3
    /\ res.status = 400
    /\ req.body.targetsIsArray
    /\ \E i \in 1..Len(req.body.targets) : req.body.targets[i].query.key = "Update"

\* C6: once a call of the request has failed, the request has ended with one
\* response, 500 {ok: false, error}, carrying no normalized target.
C6_FailureAborts ==
    (request # NoRequest /\ nFailed > 0)
        => /\ pc = "done"
           /\ res.n = 1
           /\ res.status = 500
           /\ ~res.ok
           /\ res.error \in {"blocked", "no_token", "upstream"}
           /\ res.targets = <<>>

\* C6 witness: the second target fails after the first was normalized.
C6_Witness ==
    /\ res.status = 500
    /\ Len(normalized) = 1
    /\ tIdx = 2

\* C7: at most one call to the store is in flight at any time.
C7_OneInFlight == Len(inflight) <= 1

\* C7 witness: a listing call of a nested block is in flight, for the second
\* target, after earlier calls were answered.
C7_Witness ==
    /\ Len(inflight) = 1
    /\ tIdx = 2
    /\ pc = "children_wait"
    /\ Len(stack) >= 2
    /\ nCalls >= 4

\* C10: the page size a database query carries never exceeds DB_PAGE_LIMIT.
C10_PageSizeCapped ==
    \A i \in 1..Len(inflight) :
        inflight[i].method = "POST" => inflight[i].pageSize <= env.dbPageLimit

IsBlocked ==
    /\ pc = "thrown"
    /\ res.error = "blocked"
    /\ nCalls = 0
    /\ inflight = <<>>

IsRetrievalPath(p) ==
    \/ Len(p) = 6 /\ SubSeq(p, 1, 5) = <<"/", "v1", "/", "pages", "/">> /\ p[6] # "/"
    \/ /\ Len(p) = 8
       /\ SubSeq(p, 1, 5) = <<"/", "v1", "/", "blocks", "/">>
       /\ p[6] # "/"
       /\ SubSeq(p, 7, 8) = <<"/", "children">>

IsQueryPath(p) ==
    /\ Len(p) = 8
    /\ SubSeq(p, 1, 5) = <<"/", "v1", "/", "databases", "/">>
    /\ p[6] # "/"
    /\ SubSeq(p, 7, 8) = <<"/", "query">>

IsPageCreationPath(p) ==
    p \in { <<"/", "v1", "/", "pages">>, <<"/", "v1", "/", "pages", "/">> }

\* C4: once notionFetch has acted on (method, path): PATCH and DELETE are
\* blocked whatever the path, POST to the page-creation path is blocked, and a
\* blocked call has thrown with no request made; GET of a record and POST of a
\* database query are not blocked, and are sent when the credential is set.
C4_GatewayClassification ==
    pc # "gateway" =>
        LET m == ToUpperCase(fnIn.method)
            p == fnIn.path
        IN  /\ m \in {"PATCH", "DELETE"} => IsBlocked
            /\ (m = "POST" /\ IsPageCreationPath(p)) => IsBlocked
            /\ (m = "GET" /\ IsRetrievalPath(p)) => (~IsBlocked /\ (env.token => nCalls = 1))
            /\ (m = "POST" /\ IsQueryPath(p)) => (~IsBlocked /\ (env.token => nCalls = 1))

\* C4 witness: a lower-case patch of a database query path was blocked.
C4_Witness ==
    /\ IsBlocked
    /\ fnIn.method = "patch"
    /\ IsQueryPath(fnIn.path)

\* the content before truncation
AssembledContent ==
    IF fnIn.type = "page" THEN PageContent(fnIn.blocks) ELSE DatabaseContent(fnIn.items)

EndsWith(s, suf) ==
    /\ Len(suf) <= Len(s)
    /\ SubSeq(s, Len(s) - Len(suf) + 1, Len(s)) = suf

\* C8: for page and database targets, content longer than the cap becomes its
\* first cap characters followed by the marker (length cap + length(marker));
\* content at or under the cap is returned unmodified.
C8_Truncation ==
    pc = "returned" =>
        IF Len(AssembledContent) > MAX_CONTENT_CHARS
        THEN /\ Len(fnOut) = MAX_CONTENT_CHARS + Len(TRUNCATION_MARKER)
             /\ SubSeq(fnOut, 1, MAX_CONTENT_CHARS)
                    = SubSeq(AssembledContent, 1, MAX_CONTENT_CHARS)
             /\ EndsWith(fnOut, TRUNCATION_MARKER)
        ELSE fnOut = AssembledContent

\* C8 witness: a database content over the cap was truncated.
C8_Witness ==
    /\ pc = "returned"
    /\ fnIn.type = "database"
    /\ Len(AssembledContent) > MAX_CONTENT_CHARS
    /\ Len(fnOut) = MAX_CONTENT_CHARS + 16

KeysOf(obj) == { obj[i].key : i \in 1..Len(obj) }

\* C9: extractSimpleProperties returns a map with exactly the input's keys,
\* each with one value, and an unrecognized discriminant T gives "[T]".
C9_TotalOverKeys ==
    pc = "returned" =>
        /\ KeysOf(fnOut) = KeysOf(fnIn)
        /\ Len(fnOut) = Cardinality(KeysOf(fnOut))
        /\ \A i \in 1..Len(fnIn) :
              fnIn[i].prop.type \notin KnownPropTypes =>
                 \E j \in 1..Len(fnOut) :
                    /\ fnOut[j].key = fnIn[i].key
                    /\ fnOut[j].value = Value("string", <<"[", fnIn[i].prop.type, "]">>)

\* C11: once the blocks emitted by one fetchPageBlocks invocation number
\* maxBlocks, every further step of the traversal only returns from an
\* activation of recurse: no block is emitted, no call to the store is in
\* flight, made or attempted, whatever the level, the siblings left in the
\* activations below, or the children of the block emitted last.
C11_BudgetStopsTraversal ==
    [][ Len(result) >= env.maxBlocks =>
            /\ result' = result
            /\ inflight = <<>> /\ inflight' = <<>>
            /\ nCalls' = nCalls
            /\ nFailed' = nFailed
            /\ stack' = Tail(stack) ]_vars

\* the blocks of the tree that were not emitted
NotEmitted == { n \in 1..Len(tree) : \A i \in 1..Len(result) : result[i].node # n }

\* C11 witness: fetchPageBlocks returned with the budget used up at the second
\* level, after two listings only, while the block emitted last has children
\* below the depth ceiling and a sibling of its parent was left unvisited.
C11_Witness ==
    /\ pc = "returned"
    /\ Len(result) = env.maxBlocks
    /\ nCalls = 2
    /\ Last(result).depth = 1
    /\ Last(result).depth < env.maxDepth
    /\ ChildrenOf(tree, Last(result).node) # <<>>
    /\ \E i \in 1..Len(FirstPage(tree, RootNode)) :
            FirstPage(tree, RootNode)[i].node \in NotEmitted

\* C12: once a call of the request has failed, no call to the store is made
\* or attempted again in that request: none is in flight, the calls made stay
\* as many, and the one failure stays the only one.
C12_NoCallAfterFailure ==
    [][ (request # NoRequest /\ nFailed > 0) =>
            /\ nFailed = 1
            /\ inflight = <<>> /\ inflight' = <<>>
            /\ nCalls' = nCalls
            /\ nFailed' = nFailed ]_vars

\* C12 witness: the first of two targets failed on the listing of a nested
\* block, after the page and the listing above it were answered; the request
\* ended there, the second target untouched.
C12_Witness ==
    /\ request # NoRequest
    /\ nFailed = 1
    /\ res.error = "upstream"
    /\ Len(request) = 2
    /\ tIdx = 1
    /\ normalized = <<>>
    /\ nCalls = 3
    /\ pc = "done"

\* a call to the store was made or attempted
CallAttempted == nCalls > 0 \/ nFailed > 0 \/ inflight # <<>>

\* the request carries a bearer token equal to the configured secret
Authorized ==
    /\ env.key # ""
    /\ req.auth.scheme \in {"Bearer", "bearer"}
    /\ req.auth.token = env.key

\* the handler answered before the target loop
Refused ==
    /\ pc = "done"
    /\ \/ res.status \in {405, 401, 400}
       \/ res.status = 200 /\ req.method = "OPTIONS"
       \/ res.status = 500 /\ res.error = "auth"

\* the order of the checks, and the calls, in a state: each refusal answers
\* before the next input is read, and a call is made or attempted only when
\* the method is POST, the token is the secret and validation.data was taken
C13_Order ==
    /\ CallAttempted =>
          /\ req.read = 3
          /\ req.method = "POST"
          /\ Authorized
          /\ request # NoRequest
    /\ Refused => ~CallAttempted
    /\ (req.read >= 1 /\ req.method = "OPTIONS") =>
          (pc = "done" /\ req.read = 1 /\ res.status = 200)
    /\ (req.read >= 1 /\ req.method \notin {"OPTIONS", "POST"}) =>
          (pc = "done" /\ req.read = 1 /\ res.status = 405)
    /\ (req.read >= 2 /\ ~Authorized) =>
          /\ pc = "done"
          /\ req.read = 2
          /\ req.method = "POST"
          /\ res.status = IF env.key = "" THEN 500 ELSE 401
    /\ (req.read = 3 /\ request = NoRequest) =>
          /\ pc = "done"
          /\ req.method = "POST"
          /\ Authorized
          /\ res.status = 400
    /\ req.read = 0 => pc = "start"
    /\ req.read < 3 => request = NoRequest

\* the validation step: validation.data is taken at the step that reads the
\* body, exactly when validateRequest accepts it, and what was read of the
\* request stays as it is
C13_ValidationStep ==
    /\ request' # request =>
          /\ req.read = 2 /\ req'.read = 3
          /\ validateRequest(req'.body).ok
          /\ request' = validateRequest(req'.body).data
    /\ (req.read = 2 /\ req'.read = 3 /\ request' = request) =>
          ~validateRequest(req'.body).ok
    /\ req.read = 3 => req' = req

\* C13: the handler checks preflight, method, authentication and validation in
\* this order, each refusal answering before the next input is read; a call to
\* the store is made or attempted only for a POST request whose bearer token
\* equals the configured secret and whose body passed validateRequest, and a
\* request answered 200 (preflight), 405, 401, 400 or 500 (secret not set)
\* causes none.
C13_ChecksBeforeCalls == []C13_Order /\ [][C13_ValidationStep]_vars

\* C13 witness: a POST with a lower-case bearer scheme and the right token
\* passed the three checks, its targets were fetched and it was answered 200.
C13_Witness ==
    /\ pc = "done"
    /\ res.status = 200
    /\ req.method = "POST"
    /\ req.auth.scheme = "bearer"
    /\ nCalls >= 2
    /\ Len(res.targets) >= 1

\* the instructions mention a write keyword among other words
MentionsKeyword(instructions) ==
    /\ Len(instructions) > 1
    /\ \E i \in 1..Len(instructions) : IsKeyword(instructions[i])

\* the keyword scan refused the request
GuardRejected ==
    /\ pc = "done"
    /\ res.status = 400
    /\ res.error = "forbidden keyword"

\* C14 (as claimed): a request whose instructions mention a write keyword
\* inside a longer text is rejected by the keyword scan.
C14_MentionRejected ==
    (req.read = 3 /\ MentionsKeyword(req.body.instructions)) => GuardRejected

\* a string of the body that the scan matches: a write keyword, in any case,
\* that is the whole string or ends it right after a double quote
ScanMatches(toks) ==
    /\ toks # <<>>
    /\ IsKeyword(Last(toks))
    /\ Len(toks) > 1 => toks[Len(toks) - 1] = QUOTE

\* a key or a string value of the body that the scan matches
HasQuotedKeyword(b) ==
    \/ ScanMatches(<<b.extraKey>>)
    \/ ScanMatches(<<b.mode>>)
    \/ ScanMatches(b.instructions)
    \/ \E i \in 1..Len(b.focus) : ScanMatches(<<b.focus[i]>>)
    \/ /\ b.targetsIsArray
       /\ \E i \in 1..Len(b.targets) :
             \/ ScanMatches(<<b.targets[i].type>>)
             \/ ScanMatches(b.targets[i].id)
             \/ b.targets[i].query.present /\ ScanMatches(<<b.targets[i].query.key>>)

\* C14 (amended): the scan covers the whole serialized body, instructions and
\* focus included, and refuses the request exactly when a write keyword stands
\* between two double quotes there: as a key, as a whole string value, or at
\* the end of a string value right after a double quote.  Instructions that
\* mention a keyword among other words otherwise are not refused by the scan.
C14_QuotedKeywordRejected ==
    (req.read = 3 /\ req.body.isObject) =>
        (GuardRejected <=> HasQuotedKeyword(req.body))

\* C14 witness: the instructions "list tasks to delete after review" passed
\* the scan and validation, and the request's target was fetched.
C14_Witness ==
    /\ req.read = 3
    /\ MentionsKeyword(req.body.instructions)
    /\ Len(req.body.instructions) = 11
    /\ ~HasQuotedKeyword(req.body)
    /\ request # NoRequest
    /\ nCalls >= 1

====
